---- MODULE Spec2Model ----
(***************************************************************************)
(* A model of alipay_to_ofx.py: the statement reader (parse_alipay_file),  *)
(* the translation cache (load_translations_map, save_translations_map,    *)
(* translate_field, translate_text), the OFX emitter (generate_ofx) and    *)
(* the command-line entry point.                                           *)
(*                                                                         *)
(* Text is modelled as a sequence of characters.  A character is a string  *)
(* of length one; a Chinese character of the statement format is written   *)
(* as its pinyin syllable ("zhang","hao" is the account label), which is   *)
(* one element of the sequence, as it is one character of the Python str.  *)
(***************************************************************************)
EXTENDS Integers, Sequences, FiniteSets, TLC

(***************************************************************************)
(* Python str methods used by the program                                  *)
(***************************************************************************)

\* the characters str.strip() and str.split() treat as whitespace
Whitespace ==
    {" ", "\n", "\t", "\r"}

Digits ==
    {"0", "1", "2", "3", "4", "5", "6", "7", "8", "9"}

\* s[n:] for n >= 0
DropN(s, n) ==
    IF n >= Len(s) THEN <<>> ELSE SubSeq(s, n + 1, Len(s))

\* s[:n] for n >= 0
TakeN(s, n) ==
    IF n >= Len(s) THEN s ELSE SubSeq(s, 1, n)

\* s.startswith(p)
StartsWith(s, p) ==
    Len(s) >= Len(p) /\ SubSeq(s, 1, Len(p)) = p

RECURSIVE LStrip(_)
LStrip(s) ==
    IF s # <<>> /\ s[1] \in Whitespace THEN LStrip(Tail(s)) ELSE s

RECURSIVE RStrip(_)
RStrip(s) ==
    IF s # <<>> /\ s[Len(s)] \in Whitespace
    THEN RStrip(SubSeq(s, 1, Len(s) - 1))
    ELSE s

\* s.strip()
Strip(s) ==
    RStrip(LStrip(s))

\* s.split(sep) for a non-empty separator: always at least one part
RECURSIVE SplitAcc(_, _, _, _)
SplitAcc(s, sep, cur, acc) ==
    IF s = <<>> THEN Append(acc, cur)
    ELSE IF StartsWith(s, sep)
         THEN SplitAcc(DropN(s, Len(sep)), sep, <<>>, Append(acc, cur))
         ELSE SplitAcc(Tail(s), sep, Append(cur, s[1]), acc)

Split(s, sep) ==
    SplitAcc(s, sep, <<>>, <<>>)

\* s.split(): runs of whitespace separate, no empty parts
RECURSIVE SplitWSAcc(_, _, _)
SplitWSAcc(s, cur, acc) ==
    IF s = <<>> THEN (IF cur = <<>> THEN acc ELSE Append(acc, cur))
    ELSE IF s[1] \in Whitespace
         THEN SplitWSAcc(Tail(s), <<>>, IF cur = <<>> THEN acc ELSE Append(acc, cur))
         ELSE SplitWSAcc(Tail(s), Append(cur, s[1]), acc)

SplitWS(s) ==
    SplitWSAcc(s, <<>>, <<>>)

\* sep.join(parts)
RECURSIVE Join(_, _)
Join(parts, sep) ==
    IF parts = <<>> THEN <<>>
    ELSE IF Len(parts) = 1 THEN parts[1]
    ELSE parts[1] \o sep \o Join(Tail(parts), sep)

\* s.replace(c, "") for a single character c
RECURSIVE RemoveChar(_, _)
RemoveChar(s, c) ==
    IF s = <<>> THEN <<>>
    ELSE IF s[1] = c THEN RemoveChar(Tail(s), c)
    ELSE <<s[1]>> \o RemoveChar(Tail(s), c)

\* the concatenation of a sequence of texts
RECURSIVE Concat(_)
Concat(parts) ==
    IF parts = <<>> THEN <<>> ELSE parts[1] \o Concat(Tail(parts))

\* the lines of a text as file.readlines() and file iteration give them:
\* each line keeps its newline, a last line without one is a line too
RECURSIVE ReadLinesAcc(_, _, _)
ReadLinesAcc(s, cur, acc) ==
    IF s = <<>> THEN (IF cur = <<>> THEN acc ELSE Append(acc, cur))
    ELSE IF s[1] = "\n"
         THEN ReadLinesAcc(Tail(s), <<>>, Append(acc, Append(cur, "\n")))
         ELSE ReadLinesAcc(Tail(s), Append(cur, s[1]), acc)

ReadLines(s) ==
    ReadLinesAcc(s, <<>>, <<>>)

(***************************************************************************)
(* datetime.strptime(dt_str, '%Y-%m-%d %H:%M:%S') and strftime             *)
(***************************************************************************)

\* a result of a step that can raise: err is "none" or the exception's name
Ok(v) ==
    [err |-> "none", val |-> v]

Raise(e) ==
    [err |-> e, val |-> <<>>]

DigitVal(c) ==
    CASE c = "0" -> 0 [] c = "1" -> 1 [] c = "2" -> 2 [] c = "3" -> 3
      [] c = "4" -> 4 [] c = "5" -> 5 [] c = "6" -> 6 [] c = "7" -> 7
      [] c = "8" -> 8 [] c = "9" -> 9

DigitChar(n) ==
    CASE n = 0 -> "0" [] n = 1 -> "1" [] n = 2 -> "2" [] n = 3 -> "3"
      [] n = 4 -> "4" [] n = 5 -> "5" [] n = 6 -> "6" [] n = 7 -> "7"
      [] n = 8 -> "8" [] n = 9 -> "9"

RECURSIVE ToNat(_)
ToNat(ds) ==
    IF ds = <<>> THEN 0
    ELSE 10 * ToNat(SubSeq(ds, 1, Len(ds) - 1)) + DigitVal(ds[Len(ds)])

RECURSIVE NatToDigits(_)
NatToDigits(n) ==
    IF n < 10 THEN <<DigitChar(n)>>
    ELSE Append(NatToDigits(n \div 10), DigitChar(n % 10))

\* %m, %d, %H, %M, %S of strftime: two digits, zero padded
Pad2(n) ==
    <<DigitChar(n \div 10), DigitChar(n % 10)>>

\* the longest prefix of s made of digits
RECURSIVE DigitRun(_)
DigitRun(s) ==
    IF s # <<>> /\ s[1] \in Digits THEN <<s[1]>> \o DigitRun(Tail(s)) ELSE <<>>

IsLeap(y) ==
    (y % 4 = 0 /\ y % 100 # 0) \/ y % 400 = 0

DaysInMonth(y, m) ==
    IF m = 2 THEN (IF IsLeap(y) THEN 29 ELSE 28)
    ELSE IF m \in {4, 6, 9, 11} THEN 30 ELSE 31

\* datetime.strptime(s, '%Y-%m-%d %H:%M:%S').strftime('%Y%m%d%H%M%S'):
\* %Y is four digits; %m %d %H %M %S are one or two digits in their range
\* (%d also a space and one digit); the blank of the format is one or more
\* whitespace characters; nothing may follow the seconds.  The datetime
\* constructor then rejects year 0, a day the month does not have and
\* seconds 60 and 61.  Every failure is a ValueError.  The operators below
\* match the fields from left to right: each takes the fields matched so far
\* and the text that is left.

\* a one- or two-digit field in lo..hi
FieldOk(ds, lo, hi) ==
    Len(ds) \in 1..2 /\ ToNat(ds) >= lo /\ ToNat(ds) <= hi

\* the date checked and printed
StrpDone(y, mo, da, ho, mi, se) ==
    IF y >= 1 /\ da <= DaysInMonth(y, mo) /\ se <= 59
    THEN Ok(NatToDigits(y) \o Pad2(mo) \o Pad2(da)
            \o Pad2(ho) \o Pad2(mi) \o Pad2(se))
    ELSE Raise("ValueError")

\* %S and the end of the text
StrpSecond(y, mo, da, ho, mi, se, rest) ==
    IF FieldOk(se, 0, 61) /\ rest = <<>>
    THEN StrpDone(y, mo, da, ho, mi, ToNat(se))
    ELSE Raise("ValueError")

\* %M and the colon after it
StrpMinute(y, mo, da, ho, mi, rest) ==
    IF FieldOk(mi, 0, 59) /\ StartsWith(rest, <<":">>)
    THEN StrpSecond(y, mo, da, ho, ToNat(mi), DigitRun(Tail(rest)),
                    DropN(rest, 1 + Len(DigitRun(Tail(rest)))))
    ELSE Raise("ValueError")

\* %H and the colon after it
StrpHour(y, mo, da, ho, rest) ==
    IF FieldOk(ho, 0, 23) /\ StartsWith(rest, <<":">>)
    THEN StrpMinute(y, mo, da, ToNat(ho), DigitRun(Tail(rest)),
                    DropN(rest, 1 + Len(DigitRun(Tail(rest)))))
    ELSE Raise("ValueError")

\* the whitespace between date and time: at least one character
StrpBlank(y, mo, da, rest, time) ==
    IF Len(time) < Len(rest)
    THEN StrpHour(y, mo, da, DigitRun(time), DropN(time, Len(DigitRun(time))))
    ELSE Raise("ValueError")

\* %d
StrpDay(y, mo, da, rest) ==
    IF FieldOk(da, 1, 31)
    THEN StrpBlank(y, mo, ToNat(da), rest, LStrip(rest))
    ELSE Raise("ValueError")

\* whether %d matches a space and a digit from 1 to 9
SpaceDay(rest) ==
    Len(rest) >= 2 /\ rest[1] = " " /\ rest[2] \in Digits \ {"0"}

\* %m and the hyphen after it
StrpMonth(y, mo, rest) ==
    IF FieldOk(mo, 1, 12) /\ StartsWith(rest, <<"-">>)
    THEN StrpDay(y, ToNat(mo),
                 IF SpaceDay(Tail(rest)) THEN <<rest[3]>>
                 ELSE DigitRun(Tail(rest)),
                 IF SpaceDay(Tail(rest)) THEN DropN(rest, 3)
                 ELSE DropN(rest, 1 + Len(DigitRun(Tail(rest)))))
    ELSE Raise("ValueError")

\* %Y and the hyphen after it
Strptime(s) ==
    IF /\ Len(s) >= 5
       /\ \A j \in 1..4 : s[j] \in Digits
       /\ s[5] = "-"
    THEN StrpMonth(ToNat(TakeN(s, 4)), DigitRun(DropN(s, 5)),
                   DropN(s, 5 + Len(DigitRun(DropN(s, 5)))))
    ELSE Raise("ValueError")

\* the suffix format_ofx_datetime appends
CstSuffix ==
    <<".", "0", "0", "0", "[", "+", "8", ":", "C", "S", "T", "]">>

\* the result of strptime with the suffix appended
WithSuffix(dt) ==
    IF dt.err # "none" THEN dt ELSE Ok(dt.val \o CstSuffix)

\* format_ofx_datetime: '' for an empty or all-whitespace string, else the
\* parsed time as YYYYMMDDHHMMSS.000[+8:CST]
format_ofx_datetime(dt_str) ==
    IF dt_str = <<>> \/ Strip(dt_str) = <<>> THEN Ok(<<>>)
    ELSE WithSuffix(Strptime(dt_str))

(***************************************************************************)
(* Optional values and dict                                                *)
(***************************************************************************)

\* Python's None, and a value that is present
None ==
    <<>>

Some(v) ==
    <<v>>

\* "not v" for an optional text: None and '' are both false
Falsy(v) ==
    v = None \/ v[1] = <<>>

\* A dict is the sequence of its items in insertion order, keys distinct.
DictHas(d, k) ==
    \E j \in 1..Len(d) : d[j].k = k

DictGet(d, k) ==
    d[CHOOSE j \in 1..Len(d) : d[j].k = k].v

\* d[k] = v: an existing key keeps its place, a new key goes last
DictSet(d, k, v) ==
    IF DictHas(d, k)
    THEN [j \in 1..Len(d) |-> IF d[j].k = k THEN [k |-> k, v |-> v] ELSE d[j]]
    ELSE Append(d, [k |-> k, v |-> v])

\* d1 == d2 for dicts: the same items, in any order
DictEq(d1, d2) ==
    {d1[j] : j \in 1..Len(d1)} = {d2[j] : j \in 1..Len(d2)}

(***************************************************************************)
(* The translation cache                                                   *)
(***************************************************************************)

\* text-mode reading translates "\r\n" and "\r" to "\n"
RECURSIVE UniversalNewlines(_)
UniversalNewlines(s) ==
    IF s = <<>> THEN <<>>
    ELSE IF s[1] = "\r"
         THEN <<"\n">> \o UniversalNewlines(
                  IF Len(s) >= 2 /\ s[2] = "\n" THEN DropN(s, 2) ELSE Tail(s))
         ELSE <<s[1]>> \o UniversalNewlines(Tail(s))

\* the loop of load_translations_map over the lines of the file
RECURSIVE LoadLines(_, _)
LoadLines(ls, translations) ==
    IF ls = <<>> THEN [err |-> "none", val |-> translations]
    ELSE LET parts == Split(Strip(ls[1]), <<"|">>)
         IN  IF Len(parts) # 2
             THEN [err |-> "ValueError", val |-> <<>>]
             ELSE LoadLines(Tail(ls), DictSet(translations, parts[1], parts[2]))

\* a file: whether it exists, and its text
NoFile ==
    [exists |-> FALSE, text |-> <<>>]

\* load_translations_map(translation_file)
load_translations_map(file) ==
    IF ~file.exists THEN [err |-> "none", val |-> <<>>]
    ELSE LoadLines(ReadLines(UniversalNewlines(file.text)), <<>>)

\* save_translations_map(translations, translation_file): the file written
save_translations_map(translations) ==
    [exists |-> TRUE,
     text   |-> Concat([j \in 1..Len(translations) |->
                    translations[j].k \o <<"|">> \o translations[j].v \o <<"\n">>])]

\* translate_text(text, target_lang, api_key), given the answer the remote
\* service gives to the request: [status |-> "ok", text |-> t] or
\* [status |-> "HTTPError", text |-> <<>>]
translate_text(text, target_lang, api_key, response) ==
    IF Falsy(api_key) THEN Raise("ValueError")
    ELSE IF response.status # "ok" THEN Raise("SystemError")
    ELSE Ok(response.text)

\* f"{translated} ({text})"
Formatted(translated, text) ==
    translated \o <<" ", "(">> \o text \o <<")">>

\* translate_field without the test "text not in translations": every call
\* asks the service
translate_field_uncached(translations, text, target_lang, api_key, response) ==
    LET r == translate_text(text, target_lang, api_key, response)
    IN  IF r.err # "none"
        THEN [err |-> r.err, translations |-> translations,
              val |-> <<>>, called |-> TRUE]
        ELSE [err |-> "none",
              translations |-> DictSet(translations, text, r.val),
              val |-> Formatted(r.val, text), called |-> TRUE]

\* translate_field(translations, text, target_lang, api_key): the error
\* raised if any, the mapping afterwards, the string returned, and whether
\* translate_text was called
translate_field(translations, text, target_lang, api_key, response) ==
    IF ~DictHas(translations, text)
    THEN LET r == translate_text(text, target_lang, api_key, response)
         IN  IF r.err # "none"
             THEN [err |-> r.err, translations |-> translations,
                   val |-> <<>>, called |-> TRUE]
             ELSE [err |-> "none",
                   translations |-> DictSet(translations, text, r.val),
                   val |-> Formatted(r.val, text), called |-> TRUE]
    ELSE [err |-> "none", translations |-> translations,
          val |-> Formatted(DictGet(translations, text), text),
          called |-> FALSE]

(***************************************************************************)
(* parse_alipay_file                                                       *)
(***************************************************************************)

\* the labels of the statement format, one pinyin syllable a character
LabelAccount ==
    <<"zhang", "hao">>

LabelStartDate ==
    <<"qi", "shi", "ri", "qi">>

LabelEndDate ==
    <<"zhong", "zhi", "ri", "qi">>

LabelTotal ==
    <<"gong">>

LabelRecords ==
    <<"bi", "ji", "lu">>

LabelIncomeTotal ==
    <<"yi", "shou", "ru", ":">>

LabelExpenseTotal ==
    <<"yi", "zhi", "chu", ":">>

LabelExportTime ==
    <<"dao", "chu", "shi", "jian">>

LabelTransactionId ==
    <<"jiao", "yi", "hao">>

\* the text of the direction field of an income row
IncomeMarker ==
    <<"shou", "ru">>

ExpenseMarker ==
    <<"zhi", "chu">>

\* the encodings tried, in the order of encoding_list
encoding_list ==
    <<"utf-8", "gbk", "gb2312">>

\* the metadata dict as parse_alipay_file creates it; total_records is a
\* key only once a summary line was read
EmptyMetadata ==
    [account |-> <<>>, start_date |-> <<>>, end_date |-> <<>>,
     export_time |-> <<>>, total_in |-> <<>>, total_out |-> <<>>,
     total_records |-> None]

\* parts[1].strip() of parts = line.split(':')
AccountOfParts(parts) ==
    IF Len(parts) < 2 THEN Raise("IndexError") ELSE Ok(Strip(parts[2]))

\* line.split(':')[1].strip()
AccountOf(line) ==
    AccountOfParts(Split(line, <<":">>))

\* s.split(sep)[1], IndexError when s has no sep
Second(s, sep) ==
    IF Len(Split(s, sep)) < 2 THEN Raise("IndexError")
    ELSE Ok(Split(s, sep)[2])

\* s.strip().split()[0], IndexError when s is blank
FirstWord(s) ==
    IF SplitWS(s) = <<>> THEN Raise("IndexError") ELSE Ok(SplitWS(s)[1])

\* the two dates, from the results of the lookups that give them
DateRangeOfParts(start, end, endWord) ==
    IF start.err # "none" THEN start
    ELSE IF end.err # "none" THEN end
    ELSE IF endWord.err # "none" THEN endWord
    ELSE Ok([start_date |-> DropN(Strip(start.val), 1),
             end_date |-> endWord.val])

\* dates[0].split(':')[1].strip()[1:] and
\* dates[2].split('[')[1].strip().split()[0], of dates = line.split()
DateRangeOfWords(dates) ==
    IF Len(dates) < 1 THEN Raise("IndexError")
    ELSE IF Len(dates) < 3
         THEN DateRangeOfParts(Second(dates[1], <<":">>), Raise("IndexError"),
                               Raise("IndexError"))
         ELSE DateRangeOfParts(Second(dates[1], <<":">>),
                               Second(dates[3], <<"[">>),
                               FirstWord(Second(dates[3], <<"[">>).val))

DateRangeOf(line) ==
    DateRangeOfWords(SplitWS(line))

\* cat.split(':')[1].split(',')[1]
CategoryAmountOf(p) ==
    IF p.err # "none" THEN p ELSE Second(p.val, <<",">>)

CategoryAmount(cat) ==
    CategoryAmountOf(Second(cat, <<":">>))

\* the loop over summary.split(' ') that fills total_in and total_out;
\* CategoriesWith is the body for a category that has one of the two labels
RECURSIVE Categories(_, _)
CategoriesWith(cats, metadata, a) ==
    IF a.err # "none" THEN a
    ELSE Categories(Tail(cats),
            IF StartsWith(cats[1], LabelIncomeTotal)
            THEN [metadata EXCEPT !.total_in = a.val]
            ELSE [metadata EXCEPT !.total_out = a.val])

Categories(cats, metadata) ==
    IF cats = <<>> THEN [err |-> "none", val |-> metadata]
    ELSE IF StartsWith(cats[1], LabelIncomeTotal)
            \/ StartsWith(cats[1], LabelExpenseTotal)
         THEN CategoriesWith(cats, metadata, CategoryAmount(cats[1]))
         ELSE Categories(Tail(cats), metadata)

\* the branch of a line that starts with the total label
SummaryOfStripped(summary, metadata) ==
    Categories(Split(summary, <<" ">>),
               [metadata EXCEPT !.total_records =
                    Some(DropN(Split(summary, LabelRecords)[1], 1))])

SummaryOf(line, metadata) ==
    SummaryOfStripped(Strip(line), metadata)

\* words[0][1:] of words = parts[1].strip().split()
ExportTimeOfWords(words) ==
    IF words.err # "none" THEN words ELSE Ok(DropN(words.val, 1))

\* line.split(':')[1].strip().split()[0][1:]
ExportTimeOfParts(parts) ==
    IF Len(parts) < 2 THEN Raise("IndexError")
    ELSE ExportTimeOfWords(FirstWord(parts[2]))

ExportTimeOf(line) ==
    ExportTimeOfParts(Split(line, <<":">>))

\* metadata[key] = value, or the exception that getting the value raised
SetAccount(metadata, a) ==
    IF a.err # "none" THEN a ELSE Ok([metadata EXCEPT !.account = a.val])

SetDateRange(metadata, d) ==
    IF d.err # "none" THEN d
    ELSE Ok([metadata EXCEPT !.start_date = d.val.start_date,
                             !.end_date = d.val.end_date])

SetExportTime(metadata, e) ==
    IF e.err # "none" THEN e ELSE Ok([metadata EXCEPT !.export_time = e.val])

\* the if/elif chain of the loop body: the metadata after one line
MetadataLine(line, metadata) ==
    IF StartsWith(line, LabelAccount)
    THEN SetAccount(metadata, AccountOf(line))
    ELSE IF StartsWith(line, LabelStartDate)
    THEN SetDateRange(metadata, DateRangeOf(line))
    ELSE IF StartsWith(line, LabelTotal)
    THEN SummaryOf(line, metadata)
    ELSE IF StartsWith(Strip(line), LabelExportTime)
    THEN SetExportTime(metadata, ExportTimeOf(line))
    ELSE Ok(metadata)

\* the loop over enumerate(lines): it ends at the line that starts with the
\* transaction-id label, binding transaction_lines to the lines after it;
\* when the lines run out, transaction_lines was never bound.  ScanStep is
\* the rest of the loop from line i on, m being the metadata after line i.
RECURSIVE ScanLines(_, _, _)
ScanStep(lines, i, metadata, m) ==
    IF m.err # "none"
    THEN [err |-> m.err, metadata |-> metadata, bound |-> FALSE,
          transaction_lines |-> <<>>]
    ELSE IF StartsWith(lines[i], LabelTransactionId)
    THEN [err |-> "none", metadata |-> m.val, bound |-> TRUE,
          transaction_lines |-> DropN(lines, i)]
    ELSE ScanLines(lines, i + 1, m.val)

ScanLines(lines, i, metadata) ==
    IF i > Len(lines)
    THEN [err |-> "none", metadata |-> metadata, bound |-> FALSE,
          transaction_lines |-> <<>>]
    ELSE ScanStep(lines, i, metadata, MetadataLine(lines[i], metadata))

\* a line without its line terminator
Chomp(line) ==
    IF line # <<>> /\ line[Len(line)] = "\n"
    THEN SubSeq(line, 1, Len(line) - 1) ELSE line

\* one row of csv.reader(..., delimiter=','): the line without its line
\* terminator, split at the commas; a blank line is a row of no fields.
\* (No text of the model holds a double quote, csv's quote character.)
CsvRow(line) ==
    IF Chomp(line) = <<>> THEN <<>> ELSE Split(Chomp(line), <<",">>)

\* the number of fields a row must have to be kept (len(row) < 17: continue)
MinRowLen ==
    17

\* the row test of the loop over csv_reader
RowAccepted(row) ==
    ~(Len(row) < MinRowLen)

\* the dict appended for an accepted row
TransactionOf(row) ==
    [transaction_id          |-> Strip(row[1]),
     merchant_order_id       |-> Strip(row[2]),
     transaction_create_time |-> Strip(row[3]),
     payment_time            |-> Strip(row[4]),
     last_modified_time      |-> Strip(row[5]),
     transaction_source      |-> Strip(row[6]),
     type                    |-> Strip(row[7]),
     counterparty            |-> Strip(row[8]),
     item_name               |-> Strip(row[9]),
     amount_cny              |-> Strip(row[10]),
     income_or_expense       |-> Strip(row[11]),
     transaction_status      |-> Strip(row[12]),
     service_fee             |-> Strip(row[13]),
     successful_refund       |-> Strip(row[14]),
     remarks                 |-> Strip(row[15]),
     fund_status             |-> Strip(row[16])]

\* the loop over csv_reader
RECURSIVE ReadRows(_)
ReadRows(transaction_lines) ==
    IF transaction_lines = <<>> THEN <<>>
    ELSE IF RowAccepted(CsvRow(transaction_lines[1]))
    THEN <<TransactionOf(CsvRow(transaction_lines[1]))>>
         \o ReadRows(Tail(transaction_lines))
    ELSE ReadRows(Tail(transaction_lines))

\* the first encoding of encoding_list that decodes the file, 0 if none:
\* decoded[j] is None when encoding_list[j] raises UnicodeDecodeError, else
\* Some(lines)
FirstDecoding(decoded) ==
    IF \E j \in 1..Len(encoding_list) : decoded[j] # None
    THEN CHOOSE j \in 1..Len(encoding_list) :
            decoded[j] # None /\ \A k \in 1..(j - 1) : decoded[k] = None
    ELSE 0

\* parse_alipay_file after the scan of the lines decoded with encoding enc
ParseScanned(enc, scan) ==
    IF scan.err # "none"
    THEN [err |-> scan.err, encoding |-> Some(enc),
          transactions |-> <<>>, metadata |-> scan.metadata]
    ELSE IF ~scan.bound
    THEN [err |-> "UnboundLocalError", encoding |-> Some(enc),
          transactions |-> <<>>, metadata |-> scan.metadata]
    ELSE [err |-> "none", encoding |-> Some(enc),
          transactions |-> ReadRows(scan.transaction_lines),
          metadata |-> scan.metadata]

\* parse_alipay_file after the encoding loop, e the index of the encoding
\* that decoded the file, 0 if none did.  The else branch of the encoding
\* loop calls UnicodeDecodeError with one argument; the constructor takes
\* five, so the call raises TypeError.
ParseDecoded(decoded, e) ==
    IF e = 0
    THEN [err |-> "TypeError", encoding |-> None,
          transactions |-> <<>>, metadata |-> EmptyMetadata]
    ELSE ParseScanned(encoding_list[e],
                      ScanLines(decoded[e][1], 1, EmptyMetadata))

\* parse_alipay_file(input_file): the exception raised, if any, else the
\* transactions and the metadata
parse_alipay_file(decoded) ==
    ParseDecoded(decoded, FirstDecoding(decoded))

(***************************************************************************)
(* generate_ofx                                                            *)
(***************************************************************************)

\* DTSERVER when the export time is missing or empty
DefaultDtServer ==
    <<"2", "0", "2", "4", "0", "1", "0", "1", "0", "0", "0", "0", "0", "0">>
    \o CstSuffix

\* DTPOSTED when no date is available
EpochDtPosted ==
    <<"1", "9", "7", "0", "0", "1", "0", "1", "0", "0", "0", "0", "0", "0",
      ".", "0", "0", "0", "[", "+", "0", ":", "G", "M", "T", "]">>

\* the suffix of DTSTART and DTEND
MidnightSuffix ==
    <<"0", "0", "0", "0", "0", "0">> \o CstSuffix

\* one element written to the output file
Elem(tag, val) ==
    [tag |-> tag, val |-> val]

\* dt_server: the export time reformatted when metadata.get('export_time')
\* is true, else the default
DtServer(metadata) ==
    IF metadata.export_time # <<>>
    THEN format_ofx_datetime(metadata.export_time)
    ELSE Ok(DefaultDtServer)

\* a or b: b when a is '', else a (and a's exception when it raised)
OrElse(a, b) ==
    IF a.err # "none" \/ a.val # <<>> THEN a ELSE b

\* dt_posted with the creation time tried before the payment time
DtPosted_createFirst(transaction) ==
    OrElse(format_ofx_datetime(transaction.transaction_create_time),
      OrElse(format_ofx_datetime(transaction.payment_time),
        OrElse(format_ofx_datetime(transaction.last_modified_time),
               Ok(EpochDtPosted))))

\* dt_posted: the "or" chain evaluates a later field only when the earlier
\* ones gave '', then the epoch default replaces ''
DtPosted(transaction) ==
    OrElse(format_ofx_datetime(transaction.payment_time),
      OrElse(format_ofx_datetime(transaction.transaction_create_time),
        OrElse(format_ofx_datetime(transaction.last_modified_time),
               Ok(EpochDtPosted))))

\* "CREDIT" if transaction['income_or_expense'] == income marker else "DEBIT"
TrnType(transaction) ==
    IF transaction.income_or_expense = IncomeMarker THEN "CREDIT" ELSE "DEBIT"

\* the arguments the entry point passes to generate_ofx:
\* generate_ofx(..., translations, 'en', args.api_key if args.translate else None)
GenerateArgs(args) ==
    [target_lang |-> Some(<<"e", "n">>),
     api_key     |-> IF args.translate THEN args.api_key ELSE None]

(***************************************************************************)
(* The inputs of the model                                                 *)
(***************************************************************************)

\* the most rows in the transaction section of a statement
MaxRows ==
    2

\* the most records passed to generate_ofx when it is called directly
MaxRecords ==
    2

\* the most entries of a mapping saved and reloaded
MaxEntries ==
    2

\* '2024-05-01 10:11:12', '2024-05-02 09:00:00', '2024-5-3 8:30:00'
PayTime ==
    <<"2", "0", "2", "4", "-", "0", "5", "-", "0", "1", " ",
      "1", "0", ":", "1", "1", ":", "1", "2">>

CreateTime ==
    <<"2", "0", "2", "4", "-", "0", "5", "-", "0", "2", " ",
      "0", "9", ":", "0", "0", ":", "0", "0">>

ModifiedTime ==
    <<"2", "0", "2", "4", "-", "5", "-", "3", " ",
      "8", ":", "3", "0", ":", "0", "0">>

\* a time field that is not a time
BadTime ==
    <<"2", "0", "2", "4", "-", "0", "5">>

\* the export timestamp of a statement, '2024-05-29 10:11:12'
ExportStamp ==
    <<"2", "0", "2", "4", "-", "0", "5", "-", "2", "9", " ",
      "1", "0", ":", "1", "1", ":", "1", "2">>

\* ExportStamp in OFX datetime syntax
ExportStampOfx ==
    <<"2", "0", "2", "4", "0", "5", "2", "9", "1", "0", "1", "1", "1", "2">>
    \o CstSuffix

\* names of counterparties and items, and translations of them
NameP ==
    <<"p">>

NameQ ==
    <<"q">>

\* the answers of the translation service: two translations, one of them
\* ending in a blank, and a failure
Responses ==
    {[status |-> "ok", text |-> <<"x">>],
     [status |-> "ok", text |-> <<"y", " ">>],
     [status |-> "HTTPError", text |-> <<>>]}

ApiKey ==
    <<"K">>

\* A row of the transaction section: n fields, of which the time fields,
\* the names, the id, the amount and the direction are given.  The fields
\* are padded with blanks as the export pads them.
RowFields(r) ==
    <<r.id \o <<"\t">>, <<>>, r.create, r.pay, r.mod, <<>>, <<>>,
      r.cp \o <<" ">>, <<" ">> \o r.item, r.amt, r.dir, <<>>, <<"0">>, <<"0">>,
      <<>>, <<>>, <<>>, <<>>>>

RowLine(r) ==
    Join(TakeN(RowFields(r), r.n), <<",">>) \o <<"\n">>

\* the rows statements are made of: a full row as the export writes it (a
\* trailing comma makes 17 fields), a row of exactly 16 fields, a truncated
\* row, a row whose payment time is not a time, and a blank line
RowPool ==
    {[n |-> 17, id |-> <<"1">>, create |-> CreateTime, pay |-> PayTime,
      mod |-> ModifiedTime, cp |-> NameP, item |-> NameQ, amt |-> <<"5">>,
      dir |-> IncomeMarker],
     [n |-> 16, id |-> <<"2">>, create |-> CreateTime, pay |-> <<>>,
      mod |-> <<>>, cp |-> NameP, item |-> NameP, amt |-> <<"-", "3">>,
      dir |-> ExpenseMarker],
     [n |-> 15, id |-> <<"3">>, create |-> CreateTime, pay |-> PayTime,
      mod |-> <<>>, cp |-> NameQ, item |-> NameQ, amt |-> <<"1">>,
      dir |-> ExpenseMarker],
     [n |-> 17, id |-> <<"4">>, create |-> <<>>, pay |-> BadTime,
      mod |-> <<>>, cp |-> NameQ, item |-> NameP, amt |-> <<"2">>,
      dir |-> ExpenseMarker],
     [n |-> 0, id |-> <<>>, create |-> <<>>, pay |-> <<>>,
      mod |-> <<>>, cp |-> <<>>, item |-> <<>>, amt |-> <<>>,
      dir |-> <<>>]}

\* all sequences of at most n elements of S
SeqsUpTo(S, n) ==
    UNION {[1..k -> S] : k \in 0..n}

\* the lines before the transaction section
AccountLine ==
    LabelAccount \o <<":", "[", "a", "]", "\n">>

AccountLineNoColon ==
    LabelAccount \o <<"\n">>

DateRangeLine ==
    LabelStartDate
    \o <<":", "[", "2", "0", "2", "4", "-", "0", "5", "-", "0", "1", " ",
         "0", "0", ":", "0", "0", ":", "0", "0", "]", " ", " ">>
    \o LabelEndDate
    \o <<":", "[", "2", "0", "2", "4", "-", "0", "5", "-", "3", "1", " ",
         "2", "3", ":", "5", "9", ":", "5", "9", "]", "\n">>

SummaryLine ==
    LabelTotal \o <<"2">> \o LabelRecords \o <<" ">>
    \o LabelIncomeTotal \o <<"1", "bi", ",", "5", "yuan", " ">>
    \o LabelExpenseTotal \o <<"1", "bi", ",", "3", "yuan", "\n">>

ExportTimeLine ==
    LabelExportTime \o <<":", "[">> \o ExportStamp
    \o <<"]", " ", " ", "yong", "hu", ":", "u", "\n">>

HeaderLine ==
    LabelTransactionId \o <<" ", ",", "shang", "jia", ",", "\n">>

\* the heads of a statement: none, a well-formed one, and one whose
\* account line has no colon
MetaPool ==
    {<<>>, <<AccountLine, DateRangeLine, SummaryLine>>, <<AccountLineNoColon>>}

\* A statement: its head, whether and where it has an export-time line
\* (before the transaction header, or after the rows as the export writes
\* it), whether it has the transaction header, and its rows.
Statements ==
    [meta : MetaPool, export : {"absent", "head", "tail"},
     header : BOOLEAN, rows : SeqsUpTo(RowPool, MaxRows)]

\* the lines of a statement
StatementLines(st) ==
    st.meta
    \o (IF st.export = "head" THEN <<ExportTimeLine>> ELSE <<>>)
    \o (IF st.header THEN <<HeaderLine>> ELSE <<>>)
    \o [j \in 1..Len(st.rows) |-> RowLine(st.rows[j])]
    \o (IF st.export = "tail" THEN <<ExportTimeLine>> ELSE <<>>)

\* what a run of bytes decodes to that is not text of its encoding
Mojibake ==
    <<<<"?", "\n">>>>

\* The input files.  A file is missing, or holds bytes no encoding of
\* encoding_list decodes, or holds a statement written in one of them: the
\* bytes of a utf-8 statement may also decode under gbk, to other text; a
\* gbk statement does not decode as utf-8; what gb2312 decodes, gbk decodes
\* to the same text.
InputFiles ==
    {[exists |-> FALSE, decoded |-> <<None, None, None>>, stmt |-> None],
     [exists |-> TRUE, decoded |-> <<None, None, None>>, stmt |-> None]}
    \cup {[exists |-> TRUE,
           decoded |-> <<Some(StatementLines(st)), Some(Mojibake), None>>,
           stmt |-> Some(st)] : st \in Statements}
    \cup {[exists |-> TRUE,
           decoded |-> <<None, Some(StatementLines(st)), None>>,
           stmt |-> Some(st)] : st \in Statements}
    \cup {[exists |-> TRUE,
           decoded |-> <<None, Some(StatementLines(st)), Some(StatementLines(st))>>,
           stmt |-> Some(st)] : st \in Statements}

\* the cache files a run can find: none, the one an earlier run saved, and
\* one edited by hand that has a blank line
CacheFiles ==
    {NoFile,
     save_translations_map(<<[k |-> NameP, v |-> <<"x">>]>>),
     [exists |-> TRUE, text |-> <<"p", "|", "x", "\n", "\n">>]}

\* the command lines: with or without --translate, with or without --api_key
CommandLines ==
    [translate : BOOLEAN, api_key : {None, Some(ApiKey)}]

(***************************************************************************)
(* The program as a state machine                                          *)
(***************************************************************************)

VARIABLES
    entry,          \* what is run: "main", "generate_ofx" or "cache"
    pc,             \* the statement the run is at
    err,            \* the exception that ended the run, "none" if none
    raisedAt,       \* the statement that raised it, "none" if none
    args,           \* the parsed command line
    inputFile,      \* the input file
    cacheFile,      \* translations.txt
    cacheFile0,     \* translations.txt as it was when the run started
    translations,   \* the mapping in memory
    saved,          \* the mapping handed to save_translations_map, if any
    encoding,       \* the encoding whose lines parse_alipay_file used
    transactions,   \* the records parse_alipay_file returned
    metadata,       \* the metadata parse_alipay_file returned
    target_lang,    \* generate_ofx's parameter
    api_key,        \* generate_ofx's parameter
    out,            \* the elements written to the output file so far
    dt_server,      \* generate_ofx's local
    i,              \* the index of the transaction being written
    apiCalls,       \* the texts translate_text was called with, in order
    tfLog           \* the calls of translate_field, in order

vars ==
    <<entry, pc, err, raisedAt, args, inputFile, cacheFile, cacheFile0, translations,
      saved, encoding, transactions, metadata, target_lang, api_key, out,
      dt_server, i, apiCalls, tfLog>>

\* the variables of the reader, of the cache file and of the emitter
inputVars ==
    <<entry, args, inputFile, cacheFile0, target_lang, api_key>>

parseVars ==
    <<encoding, transactions, metadata>>

emitVars ==
    <<out, dt_server, i, apiCalls, tfLog>>

\* the entry point, before its first statement
InitMain ==
    /\ entry = "main"
    /\ pc = "start"
    /\ err = "none"
    /\ raisedAt = "none"
    /\ args \in CommandLines
    /\ inputFile \in InputFiles
    /\ cacheFile \in CacheFiles
    /\ cacheFile0 = cacheFile
    /\ translations = <<>>
    /\ saved = None
    /\ encoding = None
    /\ transactions = <<>>
    /\ metadata = EmptyMetadata
    /\ target_lang = GenerateArgs(args).target_lang
    /\ api_key = GenerateArgs(args).api_key
    /\ out = <<>>
    /\ dt_server = <<>>
    /\ i = 1
    /\ apiCalls = <<>>
    /\ tfLog = <<>>

\* the run ends with exception e, raised at statement at
Fail(e, at) ==
    /\ pc' = "failed"
    /\ err' = e
    /\ raisedAt' = at

\* the step raises nothing
NoFail ==
    UNCHANGED <<err, raisedAt>>

\* translations = load_translations_map(translation_file), m its result
Loaded(m, next) ==
    IF m.err # "none"
    THEN Fail(m.err, "load") /\ UNCHANGED translations
    ELSE /\ translations' = m.val
         /\ pc' = next
         /\ NoFail

\* lines 293-297: the input file must exist, then the cache is loaded
Start ==
    /\ pc = "start"
    /\ IF ~inputFile.exists
       THEN Fail("FileNotFoundError", "exists") /\ UNCHANGED translations
       ELSE Loaded(load_translations_map(cacheFile), "parse")
    /\ UNCHANGED <<inputVars, cacheFile, saved, parseVars, emitVars>>

\* transactions, metadata = r, or the exception of r
Parsed(r) ==
    /\ encoding' = r.encoding
    /\ IF r.err # "none"
       THEN Fail(r.err, "parse") /\ UNCHANGED <<transactions, metadata>>
       ELSE /\ transactions' = r.transactions
            /\ metadata' = r.metadata
            /\ pc' = "open"
            /\ NoFail

\* line 299: transactions, metadata = parse_alipay_file(args.input_file)
ParseAlipayFile ==
    /\ pc = "parse"
    /\ Parsed(parse_alipay_file(inputFile.decoded))
    /\ UNCHANGED <<inputVars, cacheFile, translations, saved, emitVars>>

\* the sign-on and the account written with dt_server d, or d's exception
Opened(d) ==
    IF d.err # "none"
    THEN Fail(d.err, "dt_server") /\ UNCHANGED <<out, dt_server>>
    ELSE /\ dt_server' = d.val
         /\ out' = <<Elem("DTSERVER", d.val),
                     Elem("ACCTID", metadata.account),
                     Elem("DTSTART", RemoveChar(metadata.start_date, "-")
                                     \o MidnightSuffix),
                     Elem("DTEND", RemoveChar(metadata.end_date, "-")
                                   \o MidnightSuffix)>>
         /\ pc' = IF transactions = <<>> THEN "close" ELSE "transaction"
         /\ NoFail

\* generate_ofx down to DTEND: the output file is opened and the sign-on
\* and the account are written
OpenOfx ==
    /\ pc = "open"
    /\ Opened(DtServer(metadata))
    /\ UNCHANGED <<inputVars, cacheFile, translations, saved, parseVars,
                   i, apiCalls, tfLog>>

\* the elements of a block with TRNAMT taken from the service fee
TransactionElems_fee(transaction, dt_posted) ==
    <<Elem("DTPOSTED", dt_posted),
      Elem("TRNAMT", transaction.service_fee),
      Elem("FITID", transaction.transaction_id)>>

\* the elements of a block written once dt_posted is known
TransactionElems(transaction, dt_posted) ==
    <<Elem("DTPOSTED", dt_posted),
      Elem("TRNAMT", transaction.amount_cny),
      Elem("FITID", transaction.transaction_id)>>

\* the block of transaction t begun with dt_posted d, or d's exception
Begun(t, d) ==
    IF d.err # "none"
    THEN /\ Fail(d.err, "dt_posted")
         /\ out' = out \o <<Elem("STMTTRN", <<>>), Elem("TRNTYPE", TrnType(t))>>
    ELSE /\ out' = out \o <<Elem("STMTTRN", <<>>), Elem("TRNTYPE", TrnType(t))>>
                       \o TransactionElems(t, d.val)
         /\ pc' = "name"
         /\ NoFail

\* the loop body down to FITID
BeginTransaction ==
    /\ pc = "transaction"
    /\ Begun(transactions[i], DtPosted(transactions[i]))
    /\ UNCHANGED <<inputVars, cacheFile, translations, saved, parseVars,
                   dt_server, i, apiCalls, tfLog>>

\* WriteField with the mapping saved to the cache file after every call of
\* translate_field
WriteField_persist(tag, text, response, next) ==
    IF Falsy(target_lang)
    THEN /\ out' = Append(out, Elem(tag, text)) \o next
         /\ UNCHANGED <<cacheFile, translations, apiCalls, tfLog>>
         /\ NoFail
    ELSE LET r == translate_field(translations, text, target_lang,
                                  api_key, response)
         IN  /\ translations' = r.translations
             /\ cacheFile' = save_translations_map(r.translations)
             /\ apiCalls' = IF r.called THEN Append(apiCalls, text)
                            ELSE apiCalls
             /\ tfLog' = Append(tfLog,
                    [text |-> text, hit |-> DictHas(translations, text),
                     called |-> r.called, err |-> r.err, val |-> r.val,
                     before |-> translations, after |-> r.translations])
             /\ err' = r.err
             /\ raisedAt' = IF r.err # "none" THEN "translate_text"
                            ELSE "none"
             /\ out' = IF r.err # "none" THEN out
                       ELSE Append(out, Elem(tag, r.val)) \o next

\* translate_field(translations, text, target_lang, api_key) if target_lang
\* else text, written as element tag and followed by the elements next;
\* the service answers response if asked.  The cache file is not touched.
WriteField(tag, text, response, next) ==
    /\ UNCHANGED cacheFile
    /\ IF Falsy(target_lang)
       THEN /\ out' = Append(out, Elem(tag, text)) \o next
            /\ UNCHANGED <<translations, apiCalls, tfLog>>
            /\ NoFail
       ELSE LET r == translate_field(translations, text, target_lang,
                                     api_key, response)
            IN  /\ translations' = r.translations
                /\ apiCalls' = IF r.called THEN Append(apiCalls, text)
                               ELSE apiCalls
                /\ tfLog' = Append(tfLog,
                       [text |-> text, hit |-> DictHas(translations, text),
                        called |-> r.called, err |-> r.err, val |-> r.val,
                        before |-> translations, after |-> r.translations])
                /\ err' = r.err
                /\ raisedAt' = IF r.err # "none" THEN "translate_text"
                               ELSE "none"
                /\ out' = IF r.err # "none" THEN out
                          ELSE Append(out, Elem(tag, r.val)) \o next

\* the NAME line of the loop body
WriteName ==
    /\ pc = "name"
    /\ \E response \in Responses :
          WriteField("NAME", transactions[i].counterparty, response, <<>>)
    /\ pc' = IF err' # "none" THEN "failed" ELSE "memo"
    /\ UNCHANGED <<inputVars, saved, parseVars, dt_server, i>>

\* the MEMO line and the end of the loop body
WriteMemo ==
    /\ pc = "memo"
    /\ \E response \in Responses :
          WriteField("MEMO", transactions[i].item_name, response,
                     <<Elem("/STMTTRN", <<>>)>>)
    /\ pc' = IF err' # "none" THEN "failed"
             ELSE IF i = Len(transactions) THEN "close" ELSE "transaction"
    /\ i' = IF err' # "none" THEN i ELSE i + 1
    /\ UNCHANGED <<inputVars, saved, parseVars, dt_server>>

\* generate_ofx after the loop: the balances, and the file is closed
CloseOfx ==
    /\ pc = "close"
    /\ out' = out \o <<Elem("/BANKTRANLIST", <<>>),
                       Elem("BALAMT", metadata.total_in),
                       Elem("DTASOF", dt_server),
                       Elem("BALAMT", metadata.total_out),
                       Elem("DTASOF", dt_server),
                       Elem("/OFX", <<>>)>>
    /\ pc' = IF entry = "main" THEN "save" ELSE "done"
    /\ UNCHANGED <<inputVars, err, raisedAt, cacheFile, translations, saved,
                   parseVars, dt_server, i, apiCalls, tfLog>>

\* lines 303-304: save_translations_map(translations, translation_file)
SaveTranslations ==
    /\ pc = "save"
    /\ cacheFile' = save_translations_map(translations)
    /\ saved' = Some(translations)
    /\ pc' = IF entry = "main" THEN "done" ELSE "reload"
    /\ UNCHANGED <<inputVars, err, raisedAt, translations, parseVars, emitVars>>

Next ==
    \/ Start
    \/ ParseAlipayFile
    \/ OpenOfx
    \/ BeginTransaction
    \/ WriteName
    \/ WriteMemo
    \/ CloseOfx
    \/ SaveTranslations

Spec ==
    InitMain /\ [][Next]_vars

(***************************************************************************)
(* generate_ofx called directly                                            *)
(***************************************************************************)

\* the rows whose records are passed to generate_ofx: every combination of
\* present and absent time fields, two rows whose first or second time
\* field is not a time, and two rows of another transaction
RecordRows ==
    {[n |-> 17, id |-> <<"1">>, create |-> c, pay |-> p, mod |-> m,
      cp |-> NameP, item |-> NameQ, amt |-> <<"5">>, dir |-> IncomeMarker] :
        p \in {<<>>, PayTime}, c \in {<<>>, CreateTime},
        m \in {<<>>, ModifiedTime}}
    \cup
    {[n |-> 17, id |-> <<"4">>, create |-> c, pay |-> p, mod |-> <<>>,
      cp |-> NameQ, item |-> NameQ, amt |-> <<"2">>, dir |-> ExpenseMarker] :
        p \in {PayTime, BadTime}, c \in {BadTime}}
    \cup
    {[n |-> 17, id |-> <<"2">>, create |-> <<>>, pay |-> p, mod |-> <<>>,
      cp |-> NameP, item |-> NameP, amt |-> <<"-", "3">>,
      dir |-> ExpenseMarker] : p \in {<<>>, PayTime}}

\* the records the reader makes of them
Records ==
    {TransactionOf(CsvRow(RowLine(r))) : r \in RecordRows}

\* the metadata passed: no export time, the export time as the reader
\* extracts it from ExportTimeLine, and a full timestamp
Metadatas ==
    {[EmptyMetadata EXCEPT !.account = <<"a">>, !.export_time = e] :
        e \in {<<>>, ExportTimeOf(ExportTimeLine).val, ExportStamp}}

\* the target language and the key passed
CallArgs ==
    {[target_lang |-> None, api_key |-> None],
     [target_lang |-> Some(<<"e", "n">>), api_key |-> None],
     [target_lang |-> Some(<<"e", "n">>), api_key |-> Some(ApiKey)]}

InitGenerate ==
    /\ entry = "generate_ofx"
    /\ pc = "open"
    /\ err = "none"
    /\ raisedAt = "none"
    /\ args = [translate |-> FALSE, api_key |-> None]
    /\ inputFile = [exists |-> FALSE, decoded |-> <<None, None, None>>,
                    stmt |-> None]
    /\ cacheFile = NoFile
    /\ cacheFile0 = cacheFile
    /\ translations \in {<<>>, <<[k |-> NameP, v |-> <<"x">>]>>}
    /\ saved = None
    /\ encoding = None
    /\ transactions \in SeqsUpTo(Records, MaxRecords)
    /\ metadata \in Metadatas
    /\ \E a \in CallArgs : target_lang = a.target_lang /\ api_key = a.api_key
    /\ out = <<>>
    /\ dt_server = <<>>
    /\ i = 1
    /\ apiCalls = <<>>
    /\ tfLog = <<>>

NextGenerate ==
    \/ OpenOfx
    \/ BeginTransaction
    \/ WriteName
    \/ WriteMemo
    \/ CloseOfx

SpecGenerate ==
    InitGenerate /\ [][NextGenerate]_vars

(***************************************************************************)
(* save_translations_map followed by load_translations_map                 *)
(***************************************************************************)

\* originals and translations of the mappings saved: with and without
\* blanks at their ends, empty, and with the separator
Originals ==
    {<<"a">>, <<" ", "a">>, <<>>, <<"a", "|">>}

Translateds ==
    {<<"b">>, <<"b", " ">>, <<>>, <<"b", "|", "c">>}

Mappings ==
    {m \in SeqsUpTo([k : Originals, v : Translateds], MaxEntries) :
        \A j1, j2 \in 1..Len(m) : m[j1].k = m[j2].k => j1 = j2}

InitCache ==
    /\ entry = "cache"
    /\ pc = "save"
    /\ err = "none"
    /\ raisedAt = "none"
    /\ args = [translate |-> FALSE, api_key |-> None]
    /\ inputFile = [exists |-> FALSE, decoded |-> <<None, None, None>>,
                    stmt |-> None]
    /\ cacheFile = NoFile
    /\ cacheFile0 = cacheFile
    /\ translations \in Mappings
    /\ saved = None
    /\ encoding = None
    /\ transactions = <<>>
    /\ metadata = EmptyMetadata
    /\ target_lang = None
    /\ api_key = None
    /\ out = <<>>
    /\ dt_server = <<>>
    /\ i = 1
    /\ apiCalls = <<>>
    /\ tfLog = <<>>

\* translations = load_translations_map(translation_file) after the save
Reload ==
    /\ pc = "reload"
    /\ Loaded(load_translations_map(cacheFile), "done")
    /\ UNCHANGED <<inputVars, cacheFile, saved, parseVars, emitVars>>

NextCache ==
    \/ SaveTranslations
    \/ Reload

SpecCache ==
    InitCache /\ [][NextCache]_vars

(***************************************************************************)
(* Properties                                                              *)
(***************************************************************************)

\* the values written with a tag, in the order written
Values(tag) ==
    LET HasTag(e) == e.tag = tag
        sel == SelectSeq(out, HasTag)
    IN  [j \in 1..Len(sel) |-> sel[j].val]

\* parse_alipay_file was called
ParseCalled ==
    pc \notin {"start", "parse"} /\ raisedAt \notin {"exists", "load"}

\* parse_alipay_file returned
ParseReturned ==
    ParseCalled /\ raisedAt # "parse"

\* the rows of a statement that have at least 16 fields
WellFormedRows(st) ==
    LET AtLeast16(r) == r.n >= 16
    IN  SelectSeq(st.rows, AtLeast16)

\* C1: once parse_alipay_file has returned, there is exactly one record for
\* every row of the statement with 16 or more fields and none for a row with
\* fewer: the records are as many as those rows and carry their ids in order.
C1_RowsOf16Accepted ==
    (entry = "main" /\ ParseReturned) =>
        LET rows == WellFormedRows(inputFile.stmt[1])
        IN  /\ Len(transactions) = Len(rows)
            /\ \A j \in 1..Len(transactions) :
                  j <= Len(rows) => transactions[j].transaction_id = rows[j].id

\* C2: translate_text is called at most once for a text, and a call of
\* translate_field whose text is a key of the mapping calls no translator,
\* leaves the mapping as it is and returns what every earlier call for that
\* text returned.
C2_TranslatedOnce ==
    /\ \A a, b \in 1..Len(apiCalls) : apiCalls[a] = apiCalls[b] => a = b
    /\ \A j \in 1..Len(tfLog) :
          tfLog[j].hit =>
             /\ ~tfLog[j].called
             /\ tfLog[j].err = "none"
             /\ tfLog[j].after = tfLog[j].before
             /\ \A f \in 1..(j - 1) :
                   tfLog[f].text = tfLog[j].text => tfLog[f].val = tfLog[j].val

\* C2 happens: a text was translated by the service and asked for again
C2_Witness ==
    \E j \in 1..Len(tfLog) : \E f \in 1..(j - 1) :
        /\ tfLog[f].text = tfLog[j].text
        /\ tfLog[f].called /\ tfLog[f].err = "none"
        /\ tfLog[j].hit

\* no original and no translated string of the mapping holds the separator
NoPipe(m) ==
    \A j \in 1..Len(m) :
        /\ \A c \in 1..Len(m[j].k) : m[j].k[c] # "|"
        /\ \A c \in 1..Len(m[j].v) : m[j].v[c] # "|"

\* C3: a mapping without the pipe character that was saved is loaded again
\* from the same file without error and equal to the mapping saved.
C3_RoundTrip ==
    (entry = "cache" /\ pc \in {"done", "failed"} /\ NoPipe(saved[1])) =>
        (pc = "done" /\ DictEq(translations, saved[1]))

\* C4: for an input file that one of the encodings decodes,
\* parse_alipay_file raises nothing, with or without a transaction header.
C4_ParseReturns ==
    (\E j \in 1..3 : inputFile.decoded[j] # None) => raisedAt # "parse"

\* the body of the blocks written: the elements of the four tags that
\* delimit a block and carry its amount and id
BlockSkeleton ==
    LET InSkeleton(e) == e.tag \in {"STMTTRN", "TRNAMT", "FITID", "/STMTTRN"}
    IN  SelectSeq(out, InSkeleton)

\* C5: when generate_ofx, called without a target language, has returned,
\* the output holds one STMTTRN block for every record, in the order of the
\* list, with the record's id as FITID and its amount as TRNAMT.
C5_OneBlockPerRecord ==
    (Falsy(target_lang) /\ pc = "done") =>
        /\ Len(BlockSkeleton) = 4 * Len(transactions)
        /\ \A k \in 1..Len(transactions) :
              /\ BlockSkeleton[4 * k - 3].tag = "STMTTRN"
              /\ BlockSkeleton[4 * k - 2] = Elem("TRNAMT", transactions[k].amount_cny)
              /\ BlockSkeleton[4 * k - 1] = Elem("FITID", transactions[k].transaction_id)
              /\ BlockSkeleton[4 * k].tag = "/STMTTRN"

\* C5 happens: two records with different ids were written without a
\* target language
C5_Witness ==
    /\ entry = "generate_ofx" /\ pc = "done" /\ Falsy(target_lang)
    /\ Len(transactions) >= 2
    /\ transactions[1].transaction_id # transactions[2].transaction_id
    /\ Len(Values("FITID")) = Len(transactions)

\* C6: in a run without --translate the translator is never called, the
\* run does not end with the missing-key error of translate_text, and NAME
\* and MEMO hold the counterparty and the item name as they are.
C6_NoTranslationUnlessAsked ==
    (entry = "main" /\ ~args.translate) =>
        /\ apiCalls = <<>>
        /\ raisedAt # "translate_text"
        /\ \A j \in 1..Len(Values("NAME")) :
              Values("NAME")[j] = transactions[j].counterparty
        /\ \A j \in 1..Len(Values("MEMO")) :
              Values("MEMO")[j] = transactions[j].item_name

\* the times of the model in OFX datetime syntax
PayTimeOfx ==
    <<"2", "0", "2", "4", "0", "5", "0", "1", "1", "0", "1", "1", "1", "2">>
    \o CstSuffix

CreateTimeOfx ==
    <<"2", "0", "2", "4", "0", "5", "0", "2", "0", "9", "0", "0", "0", "0">>
    \o CstSuffix

ModifiedTimeOfx ==
    <<"2", "0", "2", "4", "0", "5", "0", "3", "0", "8", "3", "0", "0", "0">>
    \o CstSuffix

Reformatted(time) ==
    IF time = PayTime THEN PayTimeOfx
    ELSE IF time = CreateTime THEN CreateTimeOfx
    ELSE IF time = ModifiedTime THEN ModifiedTimeOfx
    ELSE <<>>

\* C7: the DTPOSTED written for a record is its payment time reformatted if
\* that is not empty, else its creation time reformatted if that is not
\* empty, else its last-modified time reformatted if that is not empty,
\* else the epoch constant.
C7_PostedDateFallback ==
    \A k \in 1..Len(Values("DTPOSTED")) :
        LET t == transactions[k]
        IN  Values("DTPOSTED")[k] =
               IF t.payment_time # <<>> THEN Reformatted(t.payment_time)
               ELSE IF t.transaction_create_time # <<>>
                    THEN Reformatted(t.transaction_create_time)
               ELSE IF t.last_modified_time # <<>>
                    THEN Reformatted(t.last_modified_time)
               ELSE EpochDtPosted

\* C7 happens: a record with only a last-modified time was written, after a
\* record that has a payment time
C7_Witness ==
    /\ entry = "generate_ofx"
    /\ \E k \in 1..Len(Values("DTPOSTED")) :
          /\ transactions[k].payment_time = <<>>
          /\ transactions[k].transaction_create_time = <<>>
          /\ transactions[k].last_modified_time = ModifiedTime
          /\ Values("DTPOSTED")[k] = ModifiedTimeOfx
    /\ \E k \in 1..Len(Values("DTPOSTED")) :
          /\ transactions[k].payment_time = PayTime
          /\ transactions[k].transaction_create_time = CreateTime

\* C8: parse_alipay_file uses the first of utf-8, gbk, gb2312 that decodes
\* the file, and when none does it fails with UnicodeDecodeError and returns
\* nothing.
C8_EncodingResolution ==
    ParseCalled =>
        IF inputFile.decoded[1] # None THEN encoding = Some("utf-8")
        ELSE IF inputFile.decoded[2] # None THEN encoding = Some("gbk")
        ELSE IF inputFile.decoded[3] # None THEN encoding = Some("gb2312")
        ELSE /\ pc = "failed"
             /\ err = "UnicodeDecodeError"
             /\ transactions = <<>>

\* C9: DTSERVER is the export timestamp of the statement in OFX datetime
\* syntax when the statement has an export-time line and the fallback
\* constant only when it has none, and a statement with an export-time line
\* does not make the emission of DTSERVER fail.
C9_DtServerFromExportTime ==
    (entry = "main" /\ inputFile.stmt # None) =>
        LET st == inputFile.stmt[1]
        IN  /\ \A j \in 1..Len(Values("DTSERVER")) :
                  Values("DTSERVER")[j] =
                      IF st.export # "absent" THEN ExportStampOfx
                      ELSE DefaultDtServer
            /\ st.export # "absent" => raisedAt # "dt_server"

\* C10: the cache file is as it was at the start of the run until the save
\* that follows the emission, so a run that ends with an error leaves it as
\* it was; when it differs, the output was written to its end and the file
\* is the mapping in memory.
C10_CacheWrittenOnlyAtEnd ==
    /\ pc # "done" => cacheFile = cacheFile0
    /\ cacheFile # cacheFile0 =>
          /\ out # <<>> /\ out[Len(out)].tag = "/OFX"
          /\ cacheFile = save_translations_map(translations)

\* C10 happens: the service translated a text and then failed, and the
\* translation is in memory and not in the file
C10_Witness ==
    /\ entry = "main" /\ pc = "failed" /\ raisedAt = "translate_text"
    /\ \E j \in 1..Len(tfLog) : tfLog[j].called /\ tfLog[j].err = "none"
    /\ cacheFile = cacheFile0
    /\ save_translations_map(translations) # cacheFile

====
